---- MODULE Spec2Model ----
(***************************************************************************)
(* Model of pwasm-std's src/wrapped.rs: the Descriptor handed over by the  *)
(* host, the WrappedArgs view over the input region, the WrappedResult     *)
(* handle whose done() hands bytes to ext::return_, and parse_args.        *)
(*                                                                         *)
(* One behaviour is one guest invocation.  The guest may call the layer's  *)
(* public operations in any order the types allow; the memory the          *)
(* descriptor lives in is reachable through a raw *mut pointer, so it may  *)
(* be written between two operations of the layer.                         *)
(***************************************************************************)
EXTENDS Integers, Sequences, FiniteSets, TLC

\* ---------------------------------------------------------------- bounds
\* Readable foreign bytes live at addresses 1..MemSize.
MemSize == 2
\* A byte of the model is 0..MaxByte.
MaxByte == 1
\* How many times one invocation may call parse_args.
MaxParse == 2

\* ------------------------------------------------------------- addresses
\* ::std::ptr::null_mut()
NULL == 0
Readable == 1 .. MemSize
\* One address past the readable bytes: mapped nowhere.
Unmapped == MemSize + 1
Addr == NULL .. Unmapped
\* Where the empty static slice &[] lives (guest read-only data, never null).
StaticEmpty == MemSize + 2
\* Where the host put the Descriptor.
DescAddr == MemSize + 3
\* The raw addresses an entry point may hand to parse_args.
RawAddrs == {NULL, DescAddr}

Byte == 0 .. MaxByte
\* usize values of args_len.
Lens == 0 .. MemSize
\* The reserved fields, as the host may have filled them.
ResultFields == {<<NULL, 0>>, <<1, 1>>}

\* #[repr(C)] struct Descriptor
Descriptor == [args_ptr : Addr, args_len : Lens,
               result_ptr : {f[1] : f \in ResultFields},
               result_len : {f[2] : f \in ResultFields}]

ZeroDescriptor == [args_ptr |-> NULL, args_len |-> 0, result_ptr |-> NULL, result_len |-> 0]

\* The literal of the documentation's examples: vec![0, 1, 2, 3], &[0, 1, 2, 3].
DocData == <<0, 1, 2, 3>>

VARIABLES
    descriptor, \* the raw address the host passed to the entry point
    desc,      \* the Descriptor record at DescAddr (foreign memory)
    mem,       \* the readable foreign bytes
    pc,        \* "running" | "terminated" | "returned" | "trapped"
    args,      \* the live WrappedArgs values: each holds a *const Descriptor
    results,   \* how many WrappedResult values are live
    vec,       \* the buffer the guest keeps from to_vec, or NoVec
    returned,  \* every byte sequence ext::return_ was called with, in order
    op,        \* the last operation: its name, view, result and memory reads
    first_load \* history: the fields the first Deref through DescAddr loaded

vars == <<descriptor, desc, mem, pc, args, results, vec, returned, op, first_load>>

NoSlice == [ptr |-> NULL, len |-> 0]
NoVec == [kind |-> "none", ptr |-> NULL, len |-> 0, bytes |-> <<>>, from |-> NULL]
NoOp == [name |-> "none", kind |-> "none", desc |-> NULL, slice |-> NoSlice,
         bytes |-> <<>>, reads |-> {}]
NoLoad == [set |-> FALSE, args_ptr |-> NULL, args_len |-> 0]

\* -------------------------------------------------------------- WrappedArgs
\* A WrappedArgs that kept the fields of its first load instead of loading
\* them again.
DescriptorReadCached(d) ==
    IF d = DescAddr
    THEN IF first_load.set
         THEN {[trap |-> FALSE, args_ptr |-> first_load.args_ptr,
                args_len |-> first_load.args_len]}
         ELSE {[trap |-> FALSE, args_ptr |-> desc.args_ptr, args_len |-> desc.args_len]}
    ELSE {[trap |-> TRUE, args_ptr |-> NULL, args_len |-> 0]}
         \cup {[trap |-> FALSE, args_ptr |-> p, args_len |-> n] : p \in Addr, n \in Lens}

\* The two fields deref loads through self.desc.  Through the address of the
\* Descriptor they are its fields; through any other address the load is
\* undefined: it traps or yields whatever lies there.
DescriptorRead(d) ==
    IF d = DescAddr
    THEN {[trap |-> FALSE, args_ptr |-> desc.args_ptr, args_len |-> desc.args_len]}
    ELSE {[trap |-> TRUE, args_ptr |-> NULL, args_len |-> 0]}
         \cup {[trap |-> FALSE, args_ptr |-> p, args_len |-> n] : p \in Addr, n \in Lens}

\* The memory accesses of those two loads.
DescriptorAccesses(d) == {<<d, "args_ptr">>, <<d, "args_len">>}

\* &[]
EmptySlice == [ptr |-> StaticEmpty, len |-> 0]

\* slice::from_raw_parts(ptr, len): a fat pointer, no byte is read.
from_raw_parts(ptr, len) == [ptr |-> ptr, len |-> len]

\* deref with the length off by one.
deref_slice_short(ptr, len) ==
    IF len = 0 THEN EmptySlice ELSE from_raw_parts(ptr, len - 1)

\* deref without the special case of an empty region.
deref_slice_unguarded(ptr, len) == from_raw_parts(ptr, len)

\* The slice deref builds from the two loaded fields.
deref_slice(ptr, len) ==
    IF len = 0 THEN EmptySlice ELSE from_raw_parts(ptr, len)

\* impl Deref for WrappedArgs: every outcome of one call on a view of d.
deref(d) ==
    {[trap |-> r.trap,
      slice |-> IF r.trap THEN NoSlice ELSE deref_slice(r.args_ptr, r.args_len),
      args_ptr |-> r.args_ptr, args_len |-> r.args_len,
      reads |-> DescriptorAccesses(d)] : r \in DescriptorRead(d)}

\* impl AsRef<[u8]> for WrappedArgs: &*self
as_ref(d) == deref(d)

\* The addresses a slice covers.
SliceAddrs(s) == {s.ptr + i : i \in 0 .. s.len - 1}

\* Reading every byte of a slice.  Inside the readable bytes it yields them;
\* a slice reaching outside is undefined to read: a trap, or some junk byte
\* for each address that is not readable.
ReadBytes(s) ==
    IF SliceAddrs(s) \subseteq Readable
    THEN {[trap |-> FALSE, bytes |-> [i \in 1 .. s.len |-> mem[s.ptr + i - 1]]]}
    ELSE {[trap |-> TRUE, bytes |-> <<>>]}
         \cup {[trap |-> FALSE,
                bytes |-> [i \in 1 .. s.len |->
                            IF s.ptr + i - 1 \in Readable THEN mem[s.ptr + i - 1] ELSE junk]]
               : junk \in Byte}

\* The memory accesses of reading every byte of a slice.
ByteAccesses(s) == {<<a, "byte">> : a \in SliceAddrs(s)}

\* A to_vec that hands back the borrowed region instead of a copy of it.
to_vec_borrowed(s, bytes, d) ==
    [kind |-> "borrowed", ptr |-> s.ptr, len |-> s.len, bytes |-> <<>>, from |-> d]

\* [u8]::to_vec on the view of d: an owned buffer holding the bytes read.
to_vec(s, bytes, d) ==
    [kind |-> "owned", ptr |-> NULL, len |-> Len(bytes), bytes |-> bytes, from |-> d]

\* What a buffer of the guest holds now.
Contents(buf) ==
    IF buf.kind = "borrowed"
    THEN [i \in 1 .. buf.len |->
            IF buf.ptr + i - 1 \in Readable THEN mem[buf.ptr + i - 1] ELSE 0]
    ELSE buf.bytes

\* The fields the first takes_slice(&input) loaded are remembered.
NoteLoad(d, o) ==
    IF d = DescAddr /\ ~first_load.set /\ ~o.trap
    THEN [set |-> TRUE, args_ptr |-> o.args_ptr, args_len |-> o.args_len]
    ELSE first_load

\* input.to_vec(): deref, then a copy of every byte of the slice.
view_read(d) ==
    UNION {IF o.trap
           THEN {[trap |-> TRUE, slice |-> o.slice, bytes |-> <<>>, reads |-> o.reads,
                  args_ptr |-> o.args_ptr, args_len |-> o.args_len]}
           ELSE {[trap |-> r.trap, slice |-> o.slice, bytes |-> r.bytes,
                  reads |-> o.reads \cup ByteAccesses(o.slice),
                  args_ptr |-> o.args_ptr, args_len |-> o.args_len]
                 : r \in ReadBytes(o.slice)}
           : o \in as_ref(d)}

\* ------------------------------------------------------------ WrappedResult
\* The values the guest may pass to done: the Vec literal and the static
\* slice of the examples, the Vec it got from to_vec, or a WrappedArgs.
DoneVals ==
    {[kind |-> "vec_literal", bytes |-> DocData, desc |-> NULL],
     [kind |-> "static", bytes |-> DocData, desc |-> NULL]}
    \cup (IF vec = NoVec THEN {}
          ELSE {[kind |-> "vec", bytes |-> Contents(vec), desc |-> NULL]})
    \cup {[kind |-> "args", bytes |-> <<>>, desc |-> args[i]] : i \in 1 .. Len(args)}

\* A done that loses the last byte of the value.
val_as_ref_short(val) ==
    IF val.kind = "args"
    THEN {[trap |-> o.trap, bytes |-> o.bytes, reads |-> o.reads] : o \in view_read(val.desc)}
    ELSE {[trap |-> FALSE, bytes |-> SubSeq(val.bytes, 1, Len(val.bytes) - 1), reads |-> {}]}

\* let result = val.as_ref(): the bytes ext::return_ is given, and the
\* foreign memory read to get them.
val_as_ref(val) ==
    IF val.kind = "args"
    THEN {[trap |-> o.trap, bytes |-> o.bytes, reads |-> o.reads] : o \in view_read(val.desc)}
    ELSE {[trap |-> FALSE, bytes |-> val.bytes, reads |-> {}]}

\* ext::return_(result): the host observes exactly the bytes it is given.
return_(bytes) == bytes

\* A done that gives control back to its caller.
after_return_returns == "running"

\* done is -> !: control flow can't get past ext::return_.
after_return == "terminated"

\* A done that writes the result's length into the descriptor.
done_descriptor_written(bytes) == [desc EXCEPT !.result_len = 1 - desc.result_len]

\* The descriptor after done: done does not touch it.
done_descriptor(bytes) == desc

\* ------------------------------------------------------------- parse_args
\* A parse_args that validates the descriptor by reading it.
parse_reads_validating(p) == DescriptorAccesses(p)

\* parse_args casts the pointer and builds the two values: no load.
parse_reads(p) == {}

\* A parse_args that hands out a second WrappedResult.
parse_results_two(n) == n + 2

\* let result = WrappedResult: one more live WrappedResult.
parse_results(n) == n + 1

\* ------------------------------------------------------------- operations
Init ==
    /\ descriptor \in RawAddrs
    /\ desc \in Descriptor
    /\ <<desc.result_ptr, desc.result_len>> \in ResultFields
    /\ mem \in [Readable -> Byte]
    \* Called with no descriptor, the foreign memory plays no part: one
    \* representative of it is enough.
    /\ descriptor = NULL => desc = ZeroDescriptor /\ mem = [a \in Readable |-> 0]
    /\ pc = "running"
    /\ args = <<>>
    /\ results = 0
    /\ vec = NoVec
    /\ returned = <<>>
    /\ op = NoOp
    /\ first_load = NoLoad

\* pub unsafe fn parse_args(ptr: *mut u8) -> (WrappedArgs, WrappedResult)
\* called as in the examples: parse_args(descriptor), parse_args(null_mut()).
ParseArgs ==
    /\ pc = "running"
    /\ Len(args) < MaxParse
    /\ args' = Append(args, descriptor)
    /\ results' = parse_results(results)
    /\ op' = [NoOp EXCEPT !.name = "parse_args", !.desc = descriptor,
                          !.reads = parse_reads(descriptor)]
    /\ UNCHANGED <<descriptor, desc, mem, pc, vec, returned, first_load>>

\* takes_slice(&input): one read of the view through deref.
Deref(i) ==
    /\ pc = "running"
    /\ i \in 1 .. Len(args)
    /\ \E o \in deref(args[i]) :
         /\ pc' = IF o.trap THEN "trapped" ELSE "running"
         /\ op' = [NoOp EXCEPT !.name = "deref", !.desc = args[i],
                               !.slice = o.slice, !.reads = o.reads]
         /\ first_load' = NoteLoad(args[i], o)
    /\ UNCHANGED <<descriptor, desc, mem, args, results, vec, returned>>

\* let echo: Vec<u8> = input.to_vec();
ToVec(i) ==
    /\ pc = "running"
    /\ i \in 1 .. Len(args)
    /\ \E o \in view_read(args[i]) :
         /\ pc' = IF o.trap THEN "trapped" ELSE "running"
         /\ vec' = IF o.trap THEN vec ELSE to_vec(o.slice, o.bytes, args[i])
         /\ op' = [NoOp EXCEPT !.name = "to_vec", !.desc = args[i], !.slice = o.slice,
                               !.bytes = o.bytes, !.reads = o.reads]
    /\ UNCHANGED <<descriptor, desc, mem, args, results, returned, first_load>>

\* pub fn done<T: AsRef<[u8]>>(self, val: T) -> !
Done(val) ==
    /\ pc = "running"
    /\ results > 0
    /\ \E o \in val_as_ref(val) :
         /\ op' = [NoOp EXCEPT !.name = "done", !.kind = val.kind, !.desc = val.desc,
                               !.bytes = val.bytes, !.reads = o.reads]
         /\ IF o.trap
            THEN /\ pc' = "trapped"
                 /\ UNCHANGED <<desc, results, returned>>
            ELSE /\ returned' = Append(returned, return_(o.bytes))
                 /\ pc' = after_return
                 /\ results' = results - 1
                 /\ desc' = done_descriptor(o.bytes)
    /\ UNCHANGED <<descriptor, mem, args, vec, first_load>>

\* The entry point reaches its closing brace: every local is dropped.
Return ==
    /\ pc = "running"
    /\ Len(args) > 0
    /\ pc' = "returned"
    /\ args' = <<>>
    /\ results' = 0
    /\ vec' = NoVec
    /\ op' = [NoOp EXCEPT !.name = "return"]
    /\ UNCHANGED <<descriptor, desc, mem, returned, first_load>>

\* A write to the foreign memory through the raw *mut pointer the entry
\* point was given: one field of the descriptor, or one byte of the region.
ExternalWrite ==
    /\ pc = "running"
    /\ \/ \E p \in Addr : desc' = [desc EXCEPT !.args_ptr = p] /\ mem' = mem
       \/ \E n \in Lens : desc' = [desc EXCEPT !.args_len = n] /\ mem' = mem
       \/ \E a \in Readable, b \in Byte : mem' = [mem EXCEPT ![a] = b] /\ desc' = desc
    /\ op' = [NoOp EXCEPT !.name = "write"]
    /\ UNCHANGED <<descriptor, pc, args, results, vec, returned, first_load>>

\* One invocation whose foreign memory nobody writes.
Next ==
    \/ ParseArgs
    \/ \E i \in 1 .. MaxParse : Deref(i)
    \/ \E i \in 1 .. MaxParse : ToVec(i)
    \/ \E val \in DoneVals : Done(val)
    \/ Return

Spec == Init /\ [][Next]_vars

\* An invocation the host made with the address of the Descriptor.
InitValid == Init /\ descriptor = DescAddr

\* The entry point's one parse_args call.
ParseOnce == args = <<>> /\ ParseArgs

\* One view of the descriptor, read again and again while the foreign
\* memory is written in between.
NextReads ==
    \/ ParseOnce
    \/ Deref(1)
    \/ ExternalWrite

SpecReads == InitValid /\ [][NextReads]_vars

\* One view of the descriptor, copied with to_vec while the foreign memory
\* is written in between.
NextCopies ==
    \/ ParseOnce
    \/ ToVec(1)
    \/ ExternalWrite

SpecCopies == InitValid /\ [][NextCopies]_vars

\* ----------------------------------------------------------------- claims
\* The input region the descriptor describes now.
RegionAddrs == {desc.args_ptr + i : i \in 0 .. desc.args_len - 1}
RegionReadable == RegionAddrs \subseteq Readable
InputRegion == [i \in 1 .. desc.args_len |-> mem[desc.args_ptr + i - 1]]
LastReturned == returned[Len(returned)]
\* The last operation read a view of the Descriptor.
ReadView(names) == op.name \in names /\ op.desc = DescAddr
ByteReads == {r \in op.reads : r[2] = "byte"}

\* C1: a read of the view of a descriptor with args_len > 0 yields a slice of
\* exactly args_len bytes whose i-th byte is the one at args_ptr + i; a copy
\* or a hand-off of the view holds those bytes and reads no byte outside
\* [args_ptr, args_ptr + args_len).
C1_ViewEqualsRegion ==
    (ReadView({"deref", "to_vec", "done"}) /\ desc.args_len > 0) =>
        /\ op.name \in {"deref", "to_vec"} =>
             /\ op.slice.len = desc.args_len
             /\ \A i \in 0 .. desc.args_len - 1 : op.slice.ptr + i = desc.args_ptr + i
             /\ SliceAddrs(op.slice) = RegionAddrs
        /\ op.name \in {"to_vec", "done"} =>
             /\ {r[1] : r \in ByteReads} = RegionAddrs
             /\ RegionReadable => pc # "trapped"
        /\ (op.name = "to_vec" /\ RegionReadable) =>
             /\ Len(Contents(vec)) = desc.args_len
             /\ \A i \in 1 .. desc.args_len : Contents(vec)[i] = mem[desc.args_ptr + i - 1]
        /\ (op.name = "done" /\ RegionReadable) =>
             /\ Len(LastReturned) = desc.args_len
             /\ \A i \in 1 .. desc.args_len : LastReturned[i] = mem[desc.args_ptr + i - 1]

C1_Witness ==
    /\ ReadView({"to_vec"})
    /\ desc.args_ptr = 1
    /\ desc.args_len = MemSize
    /\ mem[1] # mem[MemSize]
    /\ vec.bytes = InputRegion

\* C2: with args_len = 0 a read of the view is the empty sequence whatever
\* args_ptr is (null and unmapped included): it does not fault, the slice is
\* the static empty one, and the only memory read is the descriptor's two
\* fields, never a byte at args_ptr.
C2_EmptyNeverDereferenced ==
    (ReadView({"deref", "to_vec", "done"}) /\ desc.args_len = 0) =>
        /\ pc # "trapped"
        /\ op.reads = DescriptorAccesses(DescAddr)
        /\ ByteReads = {}
        /\ op.name \in {"deref", "to_vec"} => op.slice = EmptySlice /\ op.slice.ptr # NULL
        /\ op.name = "to_vec" => Contents(vec) = <<>>
        /\ op.name = "done" => LastReturned = <<>>

C2_Witness ==
    /\ ReadView({"deref"})
    /\ desc.args_len = 0
    /\ desc.args_ptr \in {NULL, Unmapped}
    /\ pc = "running"

\* C3: done hands ext::return_ exactly the bytes of the value it was given,
\* an owned Vec or a static slice alike; parse_args, to_vec, done (the echo)
\* makes the host observe exactly the bytes of the input region.
C3_HandsExactBytes ==
    (op.name = "done" /\ pc = "terminated") =>
        /\ Len(returned) >= 1
        /\ op.kind \in {"vec_literal", "static"} => LastReturned = DocData
        /\ op.kind = "vec" => LastReturned = Contents(vec)
        /\ op.kind # "args" =>
             /\ Len(LastReturned) = Len(op.bytes)
             /\ \A i \in 1 .. Len(op.bytes) : LastReturned[i] = op.bytes[i]
        /\ (op.kind = "vec" /\ vec.from = DescAddr /\ RegionReadable) =>
             LastReturned = InputRegion

C3_Witness ==
    /\ op.name = "done"
    /\ op.kind = "vec"
    /\ vec.from = DescAddr
    /\ desc.args_ptr = 1
    /\ desc.args_len = MemSize
    /\ returned = <<InputRegion>>

\* C4: once done has called ext::return_ the invocation is terminated and no
\* step follows: nothing reads the view, parses, drops the buffer given to
\* done or calls done again, so ext::return_ is called at most once.
C4_TerminatedAbsorbing ==
    /\ [](/\ Len(returned) <= 1
          /\ Len(returned) = 1 <=> pc = "terminated"
          /\ (pc = "terminated" /\ op.kind = "vec") => vec # NoVec)
    /\ [][pc # "terminated"]_vars

C4_Witness ==
    /\ pc = "terminated"
    /\ op.kind = "vec"
    /\ results >= 1
    /\ Len(returned) = 1

\* C5 as stated: an invocation on a valid descriptor never completes by the
\* normal return path.
C5_AlwaysEndsByDone == descriptor = DescAddr => pc # "returned"

\* C5 as amended: done is called at most once and the entry point never
\* returns normally after it; an entry point that returns normally has not
\* called done and has dropped every WrappedResult unused.
C5_DoneOrPlainReturn ==
    /\ pc = "returned" => returned = <<>> /\ results = 0 /\ op.name = "return"
    /\ returned # <<>> => pc = "terminated" /\ op.name = "done" /\ Len(returned) = 1
    /\ op.name = "return" => pc = "returned"

C5_Witness ==
    /\ descriptor = DescAddr
    /\ pc = "returned"
    /\ first_load.set
    /\ returned = <<>>

C8_ReadsAreFresh ==
    /\ \A i \in 1 .. Len(args) : args[i] = DescAddr
    /\ ReadView({"deref"}) =>
         /\ pc = "running"
         /\ desc.args_len = 0 => op.slice.len = 0
         /\ desc.args_len > 0 =>
              op.slice = [ptr |-> desc.args_ptr, len |-> desc.args_len]
         /\ RegionReadable =>
              [i \in 1 .. op.slice.len |-> mem[op.slice.ptr + i - 1]] = InputRegion

C8_Witness ==
    /\ ReadView({"deref"})
    /\ first_load.set
    /\ first_load.args_ptr # desc.args_ptr
    /\ first_load.args_len # desc.args_len
    /\ desc.args_len > 0
    /\ op.slice.ptr = desc.args_ptr

\* C9: to_vec yields a buffer equal in length and bytes to the view at the
\* moment of the copy, and a later write to the descriptor or the region
\* leaves the buffer's contents as they were.
C9_CopyIsIndependent ==
    /\ []((ReadView({"to_vec"}) /\ pc = "running") =>
            /\ Len(Contents(vec)) = desc.args_len
            /\ RegionReadable => Contents(vec) = InputRegion)
    /\ [][op'.name = "write" => Contents(vec)' = Contents(vec)]_vars

C9_Witness ==
    /\ op.name = "write"
    /\ vec.kind = "owned"
    /\ vec.len = MemSize
    /\ RegionReadable
    /\ desc.args_len = MemSize
    /\ vec.bytes # InputRegion

====
